---- MODULE Spec2Model ----
(***************************************************************************)
(* RedisStore (src/src/index.ts): JSON documents under "<key>:<id>", a     *)
(* primary ordered set "<setKey>" and one ordered set per lookup value,    *)
(* "<setKey>:<lookupName>:<fieldValue>", kept by create / update / delete  *)
(* and read by get / exists / ids / find / scan.                           *)
(***************************************************************************)
EXTENDS Integers, Sequences, FiniteSets, TLC

VARIABLES
    docs,       \* backend JSON documents: document key -> record
    zsets,      \* backend ordered sets: set key -> (member -> score)
    ttl,        \* document keys that carry a backend expiry
    now,        \* moment().valueOf(), the wall clock in milliseconds
    nextUuid,   \* number of ids uuid() has handed out, plus one
    nops,       \* number of store calls made so far
    last,       \* the call that completed last: arguments, result, commands
    hist,       \* features used by the calls so far
    slots,      \* the backend's keyspace, in the order SCAN walks it
    sc,         \* the scan in progress: its locals and where it stands
    calls,      \* the calls of concurrent callers: their locals and where they stand
    queryObject \* the query object of the caller's last ids or find, as the call left it

storeVars == <<docs, zsets, ttl, now, nextUuid, nops, last, hist>>
scanVars == <<slots, sc>>
vars == <<docs, zsets, ttl, now, nextUuid, nops, last, hist, slots, sc, calls, queryObject>>

(***************************************************************************)
(* Bounds of the model.                                                    *)
(***************************************************************************)
MaxOps == 3
MaxNow == 2
MaxUuid == 1
MaxDocs == 3
MaxCount == 3
MaxPage == 2

(***************************************************************************)
(* Values.  A record is a function from the field names it carries to      *)
(* their values; a field that is read but not carried is undefined.        *)
(***************************************************************************)
UndefS == "undefined"
UndefN == -1
AbsentS == "<absent>"
AbsentN == -2

NumFields == {"createdAt", "updatedAt", "deletedAt"}

NoRec == << >>

Field(r, f) ==
    IF f \in DOMAIN r THEN r[f]
    ELSE IF f \in NumFields THEN UndefN ELSE UndefS

TruthyS(s) == s # "" /\ s # UndefS
TruthyN(n) == n # 0 /\ n # UndefN

\* { ...a, ...b }
Spread(a, b) ==
    [f \in DOMAIN a \cup DOMAIN b |-> IF f \in DOMAIN b THEN b[f] ELSE a[f]]

\* JSON.stringify drops the keys whose value is undefined.
ToJSON(v) ==
    LET defined(f) == IF f \in NumFields THEN v[f] # UndefN ELSE v[f] # UndefS
    IN  [f \in {g \in DOMAIN v : defined(g)} |-> v[f]]

\* A record literal with the absent fields left out.
MkRec(i, c, d, u, k) ==
    LET dom == (IF i # AbsentS THEN {"id"} ELSE {})
               \cup (IF c # AbsentN THEN {"createdAt"} ELSE {})
               \cup (IF d # AbsentN THEN {"deletedAt"} ELSE {})
               \cup (IF u # AbsentS THEN {"createdBy"} ELSE {})
               \cup (IF k # AbsentS THEN {"category"} ELSE {})
        full == [id |-> i, createdAt |-> c, deletedAt |-> d,
                 createdBy |-> u, category |-> k]
    IN  [f \in dom |-> full[f]]

(***************************************************************************)
(* Store configuration: the "thing" store of the example.                 *)
(***************************************************************************)
key == "thing"
setKey == key \o "s"
lookups == << <<"user", "createdBy">>, <<"category", "category">> >>

valueKey(id) == <<key, id>>

uuid == "g" \o ToString(nextUuid)

\* Redis orders members of equal score by their bytes.
IdOrder ==
    <<"", "a", "b", "c", "d", "e">>
    \o [n \in 1..(MaxUuid + 1) |-> "g" \o ToString(n)] \o <<UndefS>>
Rank(m) == CHOOSE i \in 1..Len(IdOrder) : IdOrder[i] = m

lookupKeys(value, options) ==
    IF "noLookup" \in options THEN << >>
    ELSE [i \in 1..Len(lookups) |->
            << <<setKey, lookups[i][1], Field(value, lookups[i][2])>>,
               Field(value, "id") >>]

(***************************************************************************)
(* The backend's primitives.                                               *)
(***************************************************************************)
JsonSet(d, k, v) ==
    [x \in DOMAIN d \cup {k} |-> IF x = k THEN ToJSON(v) ELSE d[x]]

\* JSON.SET key $.field value: patches an existing document; a missing key
\* is an error of the backend and no document is made.
JsonSetPath(d, k, f, v) ==
    IF k \in DOMAIN d THEN [d EXCEPT ![k] = Spread(@, f :> v)] ELSE d

JsonDel(d, k) == [x \in DOMAIN d \ {k} |-> d[x]]

JsonGet(d, k) == IF k \in DOMAIN d THEN <<d[k]>> ELSE << >>

ZAdd(z, k, score, m) ==
    LET old == IF k \in DOMAIN z THEN z[k] ELSE << >>
        new == [x \in DOMAIN old \cup {m} |-> IF x = m THEN score ELSE old[x]]
    IN  [x \in DOMAIN z \cup {k} |-> IF x = k THEN new ELSE z[x]]

ZRem(z, k, m) ==
    IF k \notin DOMAIN z THEN z
    ELSE LET new == [x \in DOMAIN z[k] \ {m} |-> z[k][x]]
         IN  IF DOMAIN new = {}
             THEN [x \in DOMAIN z \ {k} |-> z[x]]
             ELSE [z EXCEPT ![k] = new]

ZMembers(z, k) == IF k \in DOMAIN z THEN DOMAIN z[k] ELSE {}

RECURSIVE SortRev(_, _)
SortRev(zs, S) ==
    IF S = {} THEN << >>
    ELSE LET m == CHOOSE x \in S : \A y \in S :
                     \/ zs[x] > zs[y]
                     \/ zs[x] = zs[y] /\ Rank(x) >= Rank(y)
         IN  <<m>> \o SortRev(zs, S \ {m})

Reverse(s) == [i \in 1..Len(s) |-> s[Len(s) + 1 - i]]

\* ZRANGE key min max [REV]: ranks min..max of the set, in ascending order
\* of score or, with rev, in descending order; a negative rank counts from
\* the end.
ZRange(z, k, min, max, rev) ==
    LET desc == IF k \in DOMAIN z THEN SortRev(z[k], DOMAIN z[k]) ELSE << >>
        all == IF rev THEN desc ELSE Reverse(desc)
        n == Len(all)
        lo0 == IF min < 0 THEN n + min ELSE min
        lo == IF lo0 < 0 THEN 0 ELSE lo0
        hi0 == IF max < 0 THEN n + max ELSE max
        hi == IF hi0 >= n THEN n - 1 ELSE hi0
    IN  IF lo > hi \/ lo >= n THEN << >> ELSE SubSeq(all, lo + 1, hi + 1)

\* The expiry of key k after a call that wrote the document, with or
\* without EXPIRE: the two requests are in flight together, and a JSON.SET
\* of the root may keep or clear the expiry the key had.
TtlAfter(k, expire) ==
    IF expire \/ k \in ttl THEN {ttl \cup {k}, ttl \ {k}} ELSE {ttl}

(***************************************************************************)
(* Reads.                                                                  *)
(***************************************************************************)
exists(id) == valueKey(id) \in DOMAIN docs

get(id, options) ==
    LET response == JsonGet(docs, valueKey(id))
    IN  IF response # << >>
           /\ ~(TruthyN(Field(response[1], "deletedAt")) /\ "deleted" \notin options)
        THEN response[1]
        ELSE NoRec

(***************************************************************************)
(* ids and find.  A query is its count, its offset and the sequence of its *)
(* other entries, <<name, value>>, in the order of Object.entries.         *)
(***************************************************************************)
Query(count, offset, entries) ==
    [count |-> count, offset |-> offset, entries |-> entries]

Range(s) == {s[i] : i \in 1..Len(s)}

\* new Set(curr).intersection(prev), the polyfill's.
intersection(curr, prev) == SelectSeq(curr, LAMBDA v : v \in Range(prev))

RECURSIVE reduce(_, _)
\* setOfIds.reduce((prev, curr) => new Set(curr).intersection(prev || new Set(curr)), undefined)
reduce(setOfIds, n) ==
    IF n = 1 THEN intersection(setOfIds[1], setOfIds[1])
    ELSE intersection(setOfIds[n], reduce(setOfIds, n - 1))

idsThrows(query) ==
    \E i \in 1..Len(query.entries) : ~TruthyS(query.entries[i][2])

primaryIds_NoRev(z, min, max) == ZRange(z, <<setKey>>, min, max, FALSE)

\* .ids() or .ids({}): all keys via the index set
primaryIds(z, min, max) == ZRange(z, <<setKey>>, min, max, TRUE)

lookupIds_IntersectFirst(z, queryEntries, min, max) ==
    LET setOfIds == [i \in 1..Len(queryEntries) |->
                        ZRange(z, <<setKey, queryEntries[i][1], queryEntries[i][2]>>,
                               0, -1, TRUE)]
        all == reduce(setOfIds, Len(setOfIds))
    IN  SubSeq(all, min + 1, IF max + 1 < Len(all) THEN max + 1 ELSE Len(all))

\* .ids({ foo: "FOO", bar: "BAR", ... }): via the lookup sets
lookupIds(z, queryEntries, min, max) ==
    LET setOfIds == [i \in 1..Len(queryEntries) |->
                        ZRange(z, <<setKey, queryEntries[i][1], queryEntries[i][2]>>,
                               min, max, TRUE)]
    IN  reduce(setOfIds, Len(setOfIds))

rangeMax_PastTheEnd(min, count) == min + (IF TruthyN(count) THEN count ELSE 0)

\* const max = min + (count || 0) - 1
rangeMax(min, count) == min + (IF TruthyN(count) THEN count ELSE 0) - 1

idsIn(z, query) ==
    LET min == IF TruthyN(query.offset) THEN query.offset ELSE 0
        max == rangeMax(min, query.count)
    IN  IF Len(query.entries) = 0 THEN primaryIds(z, min, max)
        ELSE lookupIds(z, query.entries, min, max)

ids(query) == idsIn(zsets, query)

blockSize == 256

\* JSON.MGET keys $, flattened: the document of each key, or null.
mget(d, keys) ==
    [i \in 1..Len(keys) |-> IF keys[i] \in DOMAIN d THEN d[keys[i]] ELSE NoRec]

RECURSIVE flat(_)
flat(seqs) == IF seqs = << >> THEN << >> ELSE Head(seqs) \o flat(Tail(seqs))

hydrate_FirstBlock(d, keys) ==
    SelectSeq(mget(d, SubSeq(keys, 1, IF Len(keys) < blockSize THEN Len(keys) ELSE blockSize)),
              LAMBDA value : value # NoRec /\ ~TruthyN(Field(value, "deletedAt")))

hydrate(d, keys) ==
    LET n == Len(keys)
        nblocks == (n + blockSize - 1) \div blockSize
        blocks == [b \in 1..nblocks |->
                      SubSeq(keys, blockSize * (b - 1) + 1,
                             IF blockSize * b < n THEN blockSize * b ELSE n)]
        values == flat([b \in 1..nblocks |-> mget(d, blocks[b])])
    IN  SelectSeq(values,
                  LAMBDA value : value # NoRec /\ ~TruthyN(Field(value, "deletedAt")))

findIn(d, z, query) ==
    LET found == idsIn(z, query)
    IN  hydrate(d, [i \in 1..Len(found) |-> <<key, found[i]>>])

find(query) == findIn(docs, zsets, query)

(***************************************************************************)
(* Inputs of the calls: a record names a user and a category; a call       *)
(* either is plain, or carries one option, or a createdAt or deletedAt of  *)
(* the caller's.                                                           *)
(***************************************************************************)
CallerIds == {"a"}
Users == {"u1", "u2"}
Categories == {"c1", "c2"}
CallerTimes == {0, 1}
OptionUsers == {"u1"}

KnownIds == CallerIds \cup {"g" \o ToString(n) : n \in 1..(nextUuid - 1)}

CreateCalls ==
    LET cids == {AbsentS} \cup CallerIds
    IN  {<<MkRec(i, AbsentN, AbsentN, u, k), {}>> :
            i \in cids, u \in Users, k \in Categories}
        \cup {<<MkRec(i, AbsentN, AbsentN, u, k), {o}>> :
            i \in cids, u \in OptionUsers, k \in Categories,
            o \in {"noIndex", "noLookup", "expire"}}
        \cup {<<MkRec(i, t, AbsentN, u, k), {}>> :
            i \in cids, u \in OptionUsers, k \in Categories, t \in CallerTimes}
        \cup {<<MkRec(i, AbsentN, t, u, k), {}>> :
            i \in cids, u \in OptionUsers, k \in Categories, t \in CallerTimes \ {0}}

\* The createdAt a caller that read the record first passes back.
StoredCreatedAt(id) ==
    IF valueKey(id) \in DOMAIN docs /\ "createdAt" \in DOMAIN docs[valueKey(id)]
    THEN docs[valueKey(id)].createdAt ELSE AbsentN

UpdateCalls ==
    {<<MkRec(i, StoredCreatedAt(i), AbsentN, u, k), {}>> :
        i \in KnownIds, u \in Users, k \in Categories}
    \cup {<<MkRec(i, StoredCreatedAt(i), AbsentN, u, k), {o}>> :
        i \in KnownIds, u \in OptionUsers, k \in Categories,
        o \in {"noLookup", "expire"}}
    \cup {<<MkRec(i, t, AbsentN, u, k), {}>> :
        i \in KnownIds, u \in OptionUsers, k \in Categories,
        t \in CallerTimes \cup {AbsentN}}
    \cup {<<MkRec(i, StoredCreatedAt(i), t, u, k), {}>> :
        i \in KnownIds, u \in OptionUsers, k \in Categories, t \in CallerTimes \ {0}}
    \cup {<<MkRec("", AbsentN, AbsentN, "u1", "c1"), {}>>}

DeleteCalls ==
    {<<id, o>> : id \in KnownIds, o \in SUBSET {"hardDelete", "noLookup"}}
    \cup {<<"", {}>>}

Tags(value, options) ==
    options \cup (IF TruthyN(Field(value, "deletedAt")) THEN {"deletedAtArg"} ELSE {})

RECURSIVE ZAddAll(_, _, _)
ZAddAll(z, pairs, score) ==
    IF pairs = << >> THEN z
    ELSE ZAddAll(ZAdd(z, pairs[1][1], score, pairs[1][2]), Tail(pairs), score)

RECURSIVE ZRemAll(_, _)
ZRemAll(z, pairs) ==
    IF pairs = << >> THEN z
    ELSE ZRemAll(ZRem(z, pairs[1][1], pairs[1][2]), Tail(pairs))

Cmds(name, pairs) == {<<name, pairs[i][1], pairs[i][2]>> : i \in 1..Len(pairs)}

(***************************************************************************)
(* Calls.  A request is <<command, key>> or <<command, key, member>>; a    *)
(* call records the requests it issued, in the order it issued them, and   *)
(* is given the set of its writes that the backend rejects.                *)
(***************************************************************************)
Accepted_AllOrNothing(pairs, name, rejected) ==
    IF rejected = {} THEN pairs ELSE << >>

\* Of the writes a call issues together, those the backend did not reject.
Accepted(pairs, name, rejected) ==
    SelectSeq(pairs, LAMBDA e : <<name, e[1], e[2]>> \notin rejected)

Requests(name, pairs) == [i \in 1..Len(pairs) |-> <<name, pairs[i][1], pairs[i][2]>>]

\* EXPIRE of a key that holds no document does nothing.
TtlOf(d, k, expire) ==
    IF k \in DOMAIN d THEN TtlAfter(k, expire) ELSE {ttl \ {k}}

(***************************************************************************)
(* create                                                                  *)
(***************************************************************************)
createdValueOf_DefaultsLast(value) ==
    Spread(value,
           [id |-> IF TruthyS(Field(value, "id")) THEN value.id ELSE uuid,
            createdAt |-> IF TruthyN(Field(value, "createdAt"))
                          THEN value.createdAt ELSE now])

createdValueOf(value) ==
    Spread([id |-> IF TruthyS(Field(value, "id")) THEN value.id ELSE uuid,
            createdAt |-> IF TruthyN(Field(value, "createdAt"))
                          THEN value.createdAt ELSE now],
           value)

createIndexes(z, createdValue, lks, options) ==
    ZAddAll(IF "noIndex" \in options THEN z
            ELSE ZAdd(z, <<setKey>>, createdValue.createdAt, createdValue.id),
            lks, createdValue.createdAt)

\* The requests of create's Promise.all.
createRequests(createdValue, lks, options) ==
    << <<"json.set", valueKey(createdValue.id)>> >>
    \o (IF "expire" \in options
        THEN << <<"expire", valueKey(createdValue.id)>> >> ELSE << >>)
    \o (IF "noIndex" \in options
        THEN << >> ELSE << <<"zadd", <<setKey>>, createdValue.id>> >>)
    \o Requests("zadd", lks)

create(value, options, rejected) ==
    /\ nops < MaxOps
    /\ ~TruthyS(Field(value, "id")) => nextUuid <= MaxUuid
    /\ \E createdValue \in {createdValueOf(value)} :
       \E lks \in {lookupKeys(createdValue, options)} :
       \E io \in {createRequests(createdValue, lks, options)} :
       \E failed \in {Range(io) \cap rejected # {}} :
          /\ docs' = IF <<"json.set", valueKey(createdValue.id)>> \in rejected
                     THEN docs
                     ELSE JsonSet(docs, valueKey(createdValue.id), createdValue)
          /\ ttl' \in TtlOf(docs', valueKey(createdValue.id),
                            /\ "expire" \in options
                            /\ <<"expire", valueKey(createdValue.id)>> \notin rejected)
          /\ zsets' = createIndexes(zsets, createdValue,
                                    Accepted(lks, "zadd", rejected),
                                    IF <<"zadd", <<setKey>>, createdValue.id>> \in rejected
                                    THEN options \cup {"noIndex"} ELSE options)
          /\ last' = [op |-> "create", arg |-> value, opts |-> options,
                      ret |-> IF failed THEN NoRec ELSE createdValue,
                      err |-> IF failed THEN "backend" ELSE "",
                      at |-> now, cmds |-> Cmds("zadd", lks),
                      io |-> io, rejected |-> Range(io) \cap rejected]
          /\ hist' = hist \cup Tags(value, options)
                          \cup (IF TruthyS(Field(value, "id")) /\ exists(value.id)
                                THEN {"recreate"} ELSE {})
                          \cup (IF failed THEN {"backendError"} ELSE {})
    /\ nextUuid' = IF TruthyS(Field(value, "id")) THEN nextUuid ELSE nextUuid + 1
    /\ nops' = nops + 1
    /\ UNCHANGED <<now, scanVars, calls, queryObject>>

(***************************************************************************)
(* update                                                                  *)
(***************************************************************************)
\* new Map(pairs).get(x)
MapGet(m, x) ==
    IF \E i \in 1..Len(m) : m[i][1] = x
    THEN m[CHOOSE i \in 1..Len(m) : m[i][1] = x /\ \A j \in (i + 1)..Len(m) : m[j][1] # x][2]
    ELSE UndefS

lookupsToRemove_None(prevLookupKeys, newLookupKeys) == << >>

lookupsToRemove(prevLookupKeys, newLookupKeys) ==
    SelectSeq(prevLookupKeys, LAMBDA e : MapGet(newLookupKeys, e[1]) # e[2])

lookupsToAdd(prevLookupKeys, newLookupKeys) ==
    SelectSeq(newLookupKeys, LAMBDA e : MapGet(prevLookupKeys, e[1]) # e[2])

updateScore(updatedValue) ==
    IF TruthyN(Field(updatedValue, "createdAt"))
    THEN updatedValue.createdAt ELSE updatedValue.updatedAt

updateThrows_NullIdOnly(value, prevValue) ==
    IF ~TruthyS(Field(value, "id")) THEN "null id" ELSE ""

\* What update throws before it writes: "" when it goes on.
updateThrows(value, prevValue) ==
    IF ~TruthyS(Field(value, "id")) THEN "null id"
    ELSE IF prevValue = NoRec THEN "does not exist"
    ELSE ""

\* The requests of update's second Promise.all.
updateRequests(value, toAdd, options) ==
    << <<"json.set", valueKey(value.id)>> >>
    \o (IF "expire" \in options THEN << <<"expire", valueKey(value.id)>> >> ELSE << >>)
    \o Requests("zadd", toAdd)

update(value, options, rejected) ==
    /\ nops < MaxOps
    /\ nops' = nops + 1
    /\ \E prevValue \in {IF TruthyS(Field(value, "id")) THEN get(value.id, {}) ELSE NoRec} :
       \E read \in {IF TruthyS(Field(value, "id"))
                    THEN << <<"json.get", valueKey(value.id)>> >> ELSE << >>} :
       IF updateThrows(value, prevValue) # ""
       THEN /\ last' = [op |-> "update", arg |-> value, opts |-> options,
                        ret |-> NoRec, err |-> updateThrows(value, prevValue),
                        at |-> now, cmds |-> {}, io |-> read, rejected |-> {}]
            /\ UNCHANGED <<docs, zsets, ttl, hist>>
       ELSE \E updatedValue \in {Spread(value, [updatedAt |-> now])} :
            \E prevLookupKeys \in {lookupKeys(prevValue, options)} :
            \E newLookupKeys \in {lookupKeys(updatedValue, options)} :
            \E toRemove \in {lookupsToRemove(prevLookupKeys, newLookupKeys)} :
            \E toAdd \in {lookupsToAdd(prevLookupKeys, newLookupKeys)} :
            \E removes \in {Requests("zrem", toRemove)} :
            \E writes \in {updateRequests(value, toAdd, options)} :
               IF Range(removes) \cap rejected # {}
               THEN \* the first Promise.all rejects: the second is never issued
                    /\ zsets' = ZRemAll(zsets, Accepted(toRemove, "zrem", rejected))
                    /\ last' = [op |-> "update", arg |-> value, opts |-> options,
                                ret |-> NoRec, err |-> "backend", at |-> now,
                                cmds |-> Cmds("zrem", toRemove),
                                io |-> read \o removes,
                                rejected |-> Range(removes) \cap rejected]
                    /\ hist' = hist \cup Tags(value, options) \cup {"backendError"}
                    /\ UNCHANGED <<docs, ttl>>
               ELSE \E failed \in {Range(writes) \cap rejected # {}} :
                    /\ docs' = IF <<"json.set", valueKey(value.id)>> \in rejected
                               THEN docs
                               ELSE JsonSet(docs, valueKey(value.id), updatedValue)
                    /\ ttl' \in TtlOf(docs', valueKey(value.id),
                                      /\ "expire" \in options
                                      /\ <<"expire", valueKey(value.id)>> \notin rejected)
                    /\ zsets' = ZAddAll(ZRemAll(zsets, toRemove),
                                        Accepted(toAdd, "zadd", rejected),
                                        updateScore(updatedValue))
                    /\ last' = [op |-> "update", arg |-> value, opts |-> options,
                                ret |-> IF failed THEN NoRec ELSE updatedValue,
                                err |-> IF failed THEN "backend" ELSE "",
                                at |-> now,
                                cmds |-> Cmds("zrem", toRemove) \cup Cmds("zadd", toAdd),
                                io |-> read \o removes \o writes,
                                rejected |-> Range(writes) \cap rejected]
                    /\ hist' = hist \cup Tags(value, options)
                                    \cup (IF failed THEN {"backendError"} ELSE {})
    /\ UNCHANGED <<now, nextUuid, scanVars, calls, queryObject>>

(***************************************************************************)
(* delete                                                                  *)
(***************************************************************************)
deleteIndexes_LookupsOnly(z, id, lks) == ZRemAll(z, lks)

deleteIndexes(z, id, lks) == ZRemAll(ZRem(z, <<setKey>>, id), lks)

\* The requests of delete's Promise.all.
deleteRequests(id, lks, options) ==
    << <<IF "hardDelete" \in options THEN "json.del" ELSE "json.set.deletedAt",
         valueKey(id)>>,
       <<"zrem", <<setKey>>, id>> >>
    \o Requests("zrem", lks)

\* JSON.SET of a path inside a document that does not exist: the backend
\* answers with an error.
NoSuchDocument(d, id, options) ==
    IF "hardDelete" \notin options /\ valueKey(id) \notin DOMAIN d
    THEN {<<"json.set.deletedAt", valueKey(id)>>} ELSE {}

delete(id, options, rejected) ==
    /\ nops < MaxOps
    /\ nops' = nops + 1
    /\ IF ~TruthyS(id)
       THEN /\ last' = [op |-> "delete", arg |-> [id |-> id], opts |-> options,
                        ret |-> NoRec, err |-> "null id", at |-> now,
                        cmds |-> {}, io |-> << >>, rejected |-> {}]
            /\ UNCHANGED <<docs, zsets, ttl, hist>>
       ELSE \E value \in {get(id, {"deleted"})} :
            \E lks \in {IF value = NoRec THEN << >> ELSE lookupKeys(value, options)} :
            \E deletedAt \in {now} :
            \E writes \in {deleteRequests(id, lks, options)} :
            \E refused \in {(Range(writes) \cap rejected) \cup NoSuchDocument(docs, id, options)} :
               /\ docs' = IF writes[1] \in refused THEN docs
                          ELSE IF "hardDelete" \in options
                          THEN JsonDel(docs, valueKey(id))
                          ELSE JsonSetPath(docs, valueKey(id), "deletedAt", deletedAt)
               /\ ttl' = IF valueKey(id) \in DOMAIN docs' THEN ttl ELSE ttl \ {valueKey(id)}
               /\ zsets' = IF <<"zrem", <<setKey>>, id>> \in refused
                           THEN ZRemAll(zsets, Accepted(lks, "zrem", refused))
                           ELSE deleteIndexes(zsets, id, Accepted(lks, "zrem", refused))
               /\ last' = [op |-> "delete", arg |-> [id |-> id], opts |-> options,
                           ret |-> IF value = NoRec \/ refused # {} THEN NoRec
                                   ELSE Spread(value, [deletedAt |-> deletedAt]),
                           err |-> IF refused # {} THEN "backend" ELSE "",
                           at |-> now,
                           cmds |-> Cmds("zrem", lks),
                           io |-> << <<"json.get", valueKey(id)>> >> \o writes,
                           rejected |-> refused]
               /\ hist' = hist \cup options
                          \cup (IF refused # {} THEN {"backendError"} ELSE {})
    /\ UNCHANGED <<now, nextUuid, scanVars, calls, queryObject>>

(***************************************************************************)
(* The environment: the clock advances; the backend expires a key.         *)
(***************************************************************************)
Tick ==
    /\ now < MaxNow
    /\ now' = now + 1
    /\ UNCHANGED <<docs, zsets, ttl, nextUuid, nops, last, hist, scanVars, calls, queryObject>>

Expire ==
    \E k \in ttl :
        /\ docs' = JsonDel(docs, k)
        /\ ttl' = ttl \ {k}
        /\ last' = [op |-> "expire", arg |-> [id |-> k[2]], opts |-> {},
                    ret |-> NoRec, err |-> "", at |-> now, cmds |-> {}, io |-> << >>, rejected |-> {}]
        /\ UNCHANGED <<zsets, now, nextUuid, nops, hist, scanVars, calls, queryObject>>

(***************************************************************************)
(* What the claims speak of.                                               *)
(***************************************************************************)
Live(d, k) == k \in DOMAIN d /\ "deletedAt" \notin DOMAIN d[k]

LiveIds == {k[2] : k \in {x \in DOMAIN docs : Live(docs, x)}}

LookupSetKeys(name) == {k \in DOMAIN zsets : Len(k) = 3 /\ k[2] = name}

NoFailedWrite == "backendError" \notin hist

Create == \E c \in CreateCalls : create(c[1], c[2], {})

Update == \E c \in UpdateCalls : update(c[1], c[2], {})

Delete == \E c \in DeleteCalls : delete(c[1], c[2], {})

\* A caller that has no call in flight.
NoCall ==
    [pc |-> "idle", arg |-> NoRec, opts |-> {}, value |-> NoRec, at |-> 0,
     toAdd |-> << >>, pending |-> {}, ret |-> NoRec, err |-> ""]

\* The callers: one that updates, one that deletes, and another one that
\* updates.
Callers == {"update", "delete", "other"}

CallOf(c) == IF c = "other" THEN "update" ELSE c

NoCalls == [c \in Callers |-> NoCall]

NoScan ==
    [pc |-> "idle", query |-> NoRec, count |-> 0, match |-> << >>,
     keys |-> << >>, nextCursor |-> "0", calls |-> 0]

Init ==
    /\ docs = << >>
    /\ zsets = << >>
    /\ ttl = {}
    /\ now = 1
    /\ nextUuid = 1
    /\ nops = 0
    /\ last = [op |-> "init", arg |-> NoRec, opts |-> {}, ret |-> NoRec,
               err |-> "", at |-> 1, cmds |-> {}, io |-> << >>,
               rejected |-> {}]
    /\ hist = {}
    /\ slots = << >>
    /\ sc = NoScan
    /\ calls = NoCalls
    /\ queryObject = NoRec

Next == Create \/ Update \/ Delete \/ Tick \/ Expire

Spec == Init /\ [][Next]_vars

(***************************************************************************)
(* Calls on record "a" of which the backend may reject one write.          *)
(***************************************************************************)
(* The store under create and update calls alone, none of which fails in   *)
(* the backend: no delete and no expiry takes a document away.             *)
(***************************************************************************)
NextIndex == Create \/ Update \/ Tick

SpecIndex == Init /\ [][NextIndex]_vars

(***************************************************************************)
FailCreateCalls ==
    {<<MkRec("a", AbsentN, AbsentN, "u1", k), o>> :
        k \in Categories, o \in {{}, {"expire"}}}

FailUpdateCalls ==
    {<<MkRec("a", StoredCreatedAt("a"), AbsentN, "u1", k), {}>> : k \in Categories}

FailDeleteCalls == {<<"a", o>> : o \in {{}, {"hardDelete"}}}

Writes ==
    {<<c, valueKey("a")>> : c \in {"json.set", "json.set.deletedAt", "json.del", "expire"}}
    \cup {<<c, k, "a">> :
            c \in {"zadd", "zrem"},
            k \in {<<setKey>>}
                  \cup {<<setKey, "user", u>> : u \in Users}
                  \cup {<<setKey, "category", g>> : g \in Categories}}

Rejections == {{}} \cup {{w} : w \in Writes}

CreateOrFail == \E c \in FailCreateCalls : \E R \in Rejections : create(c[1], c[2], R)

UpdateOrFail == \E c \in FailUpdateCalls : \E R \in Rejections : update(c[1], c[2], R)

DeleteOrFail == \E c \in FailDeleteCalls : \E R \in Rejections : delete(c[1], c[2], R)

NextFail == CreateOrFail \/ UpdateOrFail \/ DeleteOrFail \/ Tick

SpecFail == Init /\ [][NextFail]_vars

(***************************************************************************)
(* create of records whose id or createdAt is absent, undefined, empty, 0  *)
(* or given.  A ZADD whose member or score is undefined is a request the   *)
(* client serialises without a value: the backend may take it or reject    *)
(* it.                                                                     *)
(***************************************************************************)
EdgeCreateCalls ==
    {<<MkRec(i, c, AbsentN, "u1", "c1"), {}>> :
        i \in {AbsentS, UndefS, "", "a"}, c \in {AbsentN, UndefN, 0, 1}}

UndefinedOperands(value) ==
    LET createdValue == createdValueOf(value)
        io == createRequests(createdValue, lookupKeys(createdValue, {}), {})
    IN  IF createdValue.id = UndefS \/ createdValue.createdAt = UndefN
        THEN {{}, {w \in Range(io) : w[1] = "zadd"}}
        ELSE {{}}

CreateAny ==
    \E c \in EdgeCreateCalls : \E R \in UndefinedOperands(c[1]) : create(c[1], c[2], R)

NextCreate == CreateAny \/ Tick

SpecCreate == Init /\ [][NextCreate]_vars

(***************************************************************************)
(* ids and find as calls on a store that earlier creates have filled: the  *)
(* call records what it returned or threw and the requests it issued.  A   *)
(* read leaves the store as it is, so a run makes one.                     *)
(***************************************************************************)
MaxOffset == 2

QueryIds == <<"a", "b", "c", "d", "e">>

QueryCounts == {UndefN} \cup 0..MaxCount

QueryOffsets == {UndefN} \cup 0..MaxOffset

QueryEntries ==
    LET us == Users \cup {""}
        ks == Categories \cup {""}
    IN  {<< >>}
        \cup {<< <<"user", u>> >> : u \in us}
        \cup {<< <<"category", k>> >> : k \in ks}
        \cup {<< <<"user", u>>, <<"category", k>> >> : u \in us, k \in ks}
        \cup {<< <<"category", k>>, <<"user", u>> >> : u \in us, k \in ks}

Queries ==
    {Query(c, o, e) : c \in QueryCounts, o \in QueryOffsets, e \in QueryEntries}

RECURSIVE StoredAll(_)
\* The backend after create() of each record of recs, in turn.
StoredAll(recs) ==
    IF recs = << >> THEN [d |-> << >>, z |-> << >>]
    ELSE LET p == StoredAll(SubSeq(recs, 1, Len(recs) - 1))
             v == recs[Len(recs)]
         IN  [d |-> JsonSet(p.d, valueKey(v.id), v),
              z |-> createIndexes(p.z, v, lookupKeys(v, {}), {})]

\* The zrange requests ids() issues: queryEntries.map() issues one per
\* entry, in order, and stops at the entry it throws on.
idsRequests(query) ==
    IF Len(query.entries) = 0 THEN << <<"zrange", <<setKey>>>> >>
    ELSE LET bad == {i \in 1..Len(query.entries) : ~TruthyS(query.entries[i][2])}
             n == IF bad = {} THEN Len(query.entries)
                  ELSE (CHOOSE i \in bad : \A j \in bad : i <= j) - 1
         IN  [i \in 1..n |->
                <<"zrange", <<setKey, query.entries[i][1], query.entries[i][2]>>>>]

\* One JSON.MGET per block of keys.
mgetRequests(keys) ==
    [b \in 1..((Len(keys) + blockSize - 1) \div blockSize) |->
        <<"json.mget",
          SubSeq(keys, blockSize * (b - 1) + 1,
                 IF blockSize * b < Len(keys) THEN blockSize * b ELSE Len(keys))>>]

\* delete query.count; delete query.offset: what ids() leaves of the
\* caller's query object.
idsLeaves(query) == Query(UndefN, UndefN, query.entries)

idsReturns(query) ==
    [op |-> "ids", arg |-> query, opts |-> {},
     ret |-> IF idsThrows(query) THEN << >> ELSE ids(query),
     err |-> IF idsThrows(query) THEN "query must have key and value" ELSE "",
     at |-> now, cmds |-> {}, io |-> idsRequests(query), rejected |-> {}]

idsCall(query) ==
    /\ nops = 0
    /\ nops' = 1
    /\ last' = idsReturns(query)
    /\ queryObject' = idsLeaves(query)
    /\ UNCHANGED <<docs, zsets, ttl, now, nextUuid, hist, scanVars, calls>>

findReturns(query) ==
    LET found == IF idsThrows(query) THEN << >> ELSE ids(query)
        keys == [i \in 1..Len(found) |-> <<key, found[i]>>]
    IN  [op |-> "find", arg |-> query, opts |-> {},
         ret |-> IF idsThrows(query) THEN << >> ELSE hydrate(docs, keys),
         err |-> IF idsThrows(query) THEN "query must have key and value" ELSE "",
         at |-> now, cmds |-> {},
         io |-> idsRequests(query)
                \o (IF idsThrows(query) THEN << >> ELSE mgetRequests(keys)),
         rejected |-> {}]

\* find passes its query object on to ids.
findCall(query) ==
    /\ nops = 0
    /\ nops' = 1
    /\ last' = findReturns(query)
    /\ queryObject' = idsLeaves(query)
    /\ UNCHANGED <<docs, zsets, ttl, now, nextUuid, hist, scanVars, calls>>

IdsCall == \E q \in Queries : idsCall(q)

FindCall == \E q \in Queries : findCall(q)

InitQuery ==
    /\ \E m \in 0..MaxDocs :
       \E us \in [1..m -> Users] :
       \E ks \in [1..m -> Categories] :
       \E tie \in BOOLEAN :
       \E recs \in {[i \in 1..m |->
                       MkRec(QueryIds[i], IF tie /\ i > 1 THEN i - 1 ELSE i,
                             AbsentN, us[i], ks[i])]} :
          /\ docs = StoredAll(recs).d
          /\ zsets = StoredAll(recs).z
    /\ ttl = {}
    /\ now = 1
    /\ nextUuid = 1
    /\ nops = 0
    /\ last = [op |-> "init", arg |-> NoRec, opts |-> {}, ret |-> NoRec,
               err |-> "", at |-> 1, cmds |-> {}, io |-> << >>,
               rejected |-> {}]
    /\ hist = {}
    /\ slots = << >>
    /\ sc = NoScan
    /\ calls = NoCalls
    /\ queryObject = NoRec

NextQuery == IdsCall \/ FindCall

SpecQuery == InitQuery /\ [][NextQuery]_vars

(***************************************************************************)
(* The caller keeps the query object and passes it to the same call once   *)
(* more, with no write in between.                                         *)
(***************************************************************************)
idsAgain ==
    /\ nops = 1
    /\ last.op = "ids"
    /\ nops' = 2
    /\ last' = idsReturns(queryObject)
    /\ queryObject' = idsLeaves(queryObject)
    /\ UNCHANGED <<docs, zsets, ttl, now, nextUuid, hist, scanVars, calls>>

findAgain ==
    /\ nops = 1
    /\ last.op = "find"
    /\ nops' = 2
    /\ last' = findReturns(queryObject)
    /\ queryObject' = idsLeaves(queryObject)
    /\ UNCHANGED <<docs, zsets, ttl, now, nextUuid, hist, scanVars, calls>>

IdsAgain == idsAgain

FindAgain == findAgain

NextRepeat == IdsCall \/ FindCall \/ IdsAgain \/ FindAgain

SpecRepeat == InitQuery /\ [][NextRepeat]_vars

(***************************************************************************)
(* find({ id: [...] }): the caller names the ids, and find reads their     *)
(* documents block by block.  The store holds records that were created    *)
(* with noIndex and noLookup; of the records at the edges of the blocks    *)
(* some were deleted, softly or for good.                                  *)
(***************************************************************************)
HydrateSizes ==
    {0, blockSize - 1, blockSize, blockSize + 1, 2 * blockSize + 1}

HydrateMarks == <<"edge", "next", "last">>

MarkAt(n) == [edge |-> blockSize, next |-> blockSize + 1, last |-> n]

\* What became of the record at position j: by default it is live.
FateOf(n, fates, j) ==
    LET hit == {i \in 1..Len(HydrateMarks) : MarkAt(n)[HydrateMarks[i]] = j}
    IN  IF hit = {} THEN "live"
        ELSE fates[HydrateMarks[CHOOSE i \in hit : \A h \in hit : i <= h]]

\* The id uuid() handed out for the j-th record.
HydrateId(j) == "g" \o ToString(j)

HydrateDocs(n, fates) ==
    [k \in {valueKey(HydrateId(j)) : j \in {i \in 1..n : FateOf(n, fates, i) # "absent"}} |->
        ToJSON(MkRec(k[2], 1,
                     IF \E j \in 1..n : HydrateId(j) = k[2] /\ FateOf(n, fates, j) = "deleted"
                     THEN 1 ELSE AbsentN,
                     "u1", "c1"))]

\* query.id.map(id => id && this.valueKey(id)).filter(Boolean)
idKeys(idList) ==
    LET named == SelectSeq(idList, TruthyS)
    IN  [i \in 1..Len(named) |-> valueKey(named[i])]

findIdsCall(idList) ==
    /\ nops = 0
    /\ nops' = 1
    /\ \E keys \in {idKeys(idList)} :
          last' = [op |-> "find", arg |-> [id |-> idList], opts |-> {},
                   ret |-> hydrate(docs, keys), err |-> "", at |-> now,
                   cmds |-> {}, io |-> mgetRequests(keys), rejected |-> {}]
    /\ queryObject' = [id |-> idList]
    /\ UNCHANGED <<docs, zsets, ttl, now, nextUuid, hist, scanVars, calls>>

\* The ids create() has returned, in order or in reverse, alone or after
\* an empty id.
IdLists ==
    LET all == [i \in 1..(nextUuid - 1) |-> HydrateId(i)]
    IN  {all, Reverse(all), <<"">> \o all}

FindIdsCall == \E idList \in IdLists : findIdsCall(idList)

InitHydrate ==
    /\ \E n \in HydrateSizes :
       \E fates \in [Range(HydrateMarks) -> {"live", "deleted", "absent"}] :
          /\ docs = HydrateDocs(n, fates)
          /\ nextUuid = n + 1
    /\ zsets = << >>
    /\ ttl = {}
    /\ now = 1
    /\ nops = 0
    /\ last = [op |-> "init", arg |-> NoRec, opts |-> {}, ret |-> NoRec,
               err |-> "", at |-> 1, cmds |-> {}, io |-> << >>,
               rejected |-> {}]
    /\ hist = {}
    /\ slots = << >>
    /\ sc = NoScan
    /\ calls = NoCalls
    /\ queryObject = NoRec

NextHydrate == FindIdsCall

SpecHydrate == InitHydrate /\ [][NextHydrate]_vars

(***************************************************************************)
(* scan.  The backend walks its keyspace slot by slot: a call of SCAN      *)
(* walks on from the cursor it is given and answers the matching keys of   *)
(* the slots it walked, possibly with a key it has answered before, and    *)
(* the cursor to go on from, "0" once the walk is complete.  A client that *)
(* answers the number 0 there hands the loop a falsy cursor: it is written *)
(* "" here.  The count handed to SCAN is a hint and bounds no answer.      *)
(***************************************************************************)
scanCountDefault == 999

ScanCounts == {UndefN} \cup 0..MaxCount

\* Documents of another store that shares the backend.
OtherKeys == {<<"user", "d1">>}

ScanRecord(n) == MkRec("d" \o ToString(n), 1, AbsentN, "u1", "c1")

RECURSIVE Stored(_)
\* The backend after create() of the first m records.
Stored(m) ==
    IF m = 0 THEN [d |-> << >>, z |-> << >>]
    ELSE LET p == Stored(m - 1)
             v == ScanRecord(m)
         IN  [d |-> JsonSet(p.d, valueKey(v.id), v),
              z |-> createIndexes(p.z, v, lookupKeys(v, {}), {})]

Keyspace(d, z) ==
    {<<k, "json">> : k \in DOMAIN d \cup OtherKeys}
    \cup {<<k, "zset">> : k \in DOMAIN z}

RECURSIVE SeqOf(_)
SeqOf(S) ==
    IF S = {} THEN << >>
    ELSE LET x == CHOOSE y \in S : TRUE IN <<x>> \o SeqOf(S \ {x})

\* MATCH "<key>:<pattern>"
Matches(k, match) ==
    Len(k) = 2 /\ k[1] = match[1] /\ (match[2] = "*" \/ k[2] = match[2])

\* The keys of slots from+1..upto that pass MATCH and TYPE.
Walked(from, upto, match, type) ==
    LET hit(e) == e[2] = type /\ Matches(e[1], match)
        s == SelectSeq(SubSeq(slots, from + 1, upto), hit)
    IN  [i \in 1..Len(s) |-> s[i][1]]

CursorPos(cursor) ==
    IF cursor = "0" THEN 0 ELSE CHOOSE p \in 1..Len(slots) : ToString(p) = cursor

\* redis.scan(cursor, { match, type }): the answers [nextCursor, keys] the
\* backend may give.
redisScan(cursor, match, type) ==
    LET from == CursorPos(cursor)
        n == Len(slots)
        most == IF from + MaxPage < n THEN from + MaxPage ELSE n
    IN  {<<IF upto = n THEN end ELSE ToString(upto),
           again \o Walked(from, upto, match, type)>> :
            upto \in (from + 1)..most,
            again \in {<< >>} \cup {<<k>> : k \in Range(Walked(0, from, match, type))},
            end \in {"0", ""}}

\* key.substring(key.indexOf(':') + 1)
keyId(k) == k[2]

RECURSIVE addKeys_NoCap(_, _, _)
addKeys_NoCap(keys, page, count) ==
    IF page = << >> THEN keys
    ELSE addKeys_NoCap(IF keyId(Head(page)) \notin Range(keys)
                       THEN Append(keys, keyId(Head(page))) ELSE keys,
                       Tail(page), count)

RECURSIVE addKeys(_, _, _)
\* ret[1].forEach(key => keys.size < count && keys.add(...)), keys a Set
addKeys(keys, page, count) ==
    IF page = << >> THEN keys
    ELSE addKeys(IF Len(keys) < count /\ keyId(Head(page)) \notin Range(keys)
                 THEN Append(keys, keyId(Head(page))) ELSE keys,
                 Tail(page), count)

\* while (keys.size < count && nextCursor && nextCursor != "0")
scanContinues(keys, count, nextCursor) ==
    Len(keys) < count /\ TruthyS(nextCursor) /\ nextCursor # "0"

\* ids(query) with query.scan: the locals of scan() before its loop.
scanStart(query) ==
    /\ sc.pc = "idle"
    /\ TruthyS(query.scan)
    /\ sc' = [pc |-> "call", query |-> query,
              count |-> IF TruthyN(query.count) THEN query.count
                        ELSE scanCountDefault,
              match |-> valueKey(query.scan),
              keys |-> << >>, nextCursor |-> "0", calls |-> 0]
    /\ UNCHANGED <<storeVars, slots, calls, queryObject>>

\* One pass of the loop; when the loop ends scan() returns keys.
scanStep ==
    /\ sc.pc = "call"
    /\ \E ret \in redisScan(sc.nextCursor, sc.match, "json") :
       \E keys \in {addKeys(sc.keys, ret[2], sc.count)} :
          sc' = [sc EXCEPT !.nextCursor = ret[1],
                           !.keys = keys,
                           !.calls = @ + 1,
                           !.pc = IF scanContinues(keys, sc.count, ret[1])
                                  THEN "call" ELSE "done"]
    /\ UNCHANGED <<storeVars, slots, calls, queryObject>>

ScanStart == \E n \in ScanCounts : scanStart([scan |-> "*", count |-> n])

ScanStep == scanStep

InitScan ==
    /\ \E m \in 0..MaxDocs : docs = Stored(m).d /\ zsets = Stored(m).z
    /\ ttl = {}
    /\ now = 1
    /\ nextUuid = 1
    /\ nops = 0
    /\ last = [op |-> "init", arg |-> NoRec, opts |-> {}, ret |-> NoRec,
               err |-> "", at |-> 1, cmds |-> {}, io |-> << >>,
               rejected |-> {}]
    /\ hist = {}
    /\ slots \in {SeqOf(Keyspace(docs, zsets)), Reverse(SeqOf(Keyspace(docs, zsets)))}
    /\ sc = NoScan
    /\ calls = NoCalls
    /\ queryObject = NoRec

NextScan == ScanStart \/ ScanStep

\* The backend answers every call, so a pass that has started completes.
SpecScan == InitScan /\ [][NextScan]_vars /\ WF_vars(ScanStep)

(***************************************************************************)
(* Concurrent callers.  An update and a delete of one live record run as   *)
(* two calls.  A call stands at an await: the read it sent, or the         *)
(* requests of one Promise.all, which are separate requests over HTTP and  *)
(* reach the backend one at a time, in any order, between the requests of  *)
(* the other call.                                                         *)
(***************************************************************************)
RaceId == "a"

RaceRecord == MkRec(RaceId, 1, AbsentN, "u1", "c1")

RaceUpdates ==
    {MkRec(RaceId, RaceRecord.createdAt, AbsentN, u, k) : u \in {"u1"}, k \in Categories}

RaceDeletes == {<<RaceId, o>> : o \in {{}, {"hardDelete"}}}

InFlight(c) == calls[c].pc \notin {"idle", "done"}

\* The call c has returned or thrown.
Returned(c, ret, err) ==
    /\ calls' = [calls EXCEPT ![c].pc = "done", ![c].pending = {},
                              ![c].ret = ret, ![c].err = err]
    /\ last' = [op |-> CallOf(c), arg |-> calls[c].arg, opts |-> calls[c].opts,
                ret |-> ret, err |-> err, at |-> now, cmds |-> {},
                io |-> << >>, rejected |-> {}]

\* A call starts while the other one is in flight.
Overlap(c) ==
    IF \E o \in Callers \ {c} : InFlight(o) THEN {"overlap"} ELSE {}

\* update(value): the id is tested, then get(value.id) is sent.
updateStart(c, value) ==
    /\ calls[c].pc = "idle"
    /\ nops' = nops + 1
    /\ hist' = hist \cup Overlap(c)
    /\ IF ~TruthyS(Field(value, "id"))
       THEN /\ calls' = [calls EXCEPT ![c].pc = "done",
                                      ![c].arg = value,
                                      ![c].err = "null id"]
            /\ UNCHANGED last
       ELSE /\ calls' = [calls EXCEPT ![c].pc = "get",
                                      ![c].arg = value]
            /\ UNCHANGED last
    /\ UNCHANGED <<docs, zsets, ttl, now, nextUuid, scanVars, queryObject>>

\* The backend answers the read; update works out the lookups to remove
\* and to add and sends the first Promise.all, or the second when there is
\* nothing to remove.
updateGet(c) ==
    /\ calls[c].pc = "get"
    /\ \E value \in {calls[c].arg} :
       \E prevValue \in {get(value.id, {})} :
       IF updateThrows(value, prevValue) # ""
       THEN Returned(c, NoRec, updateThrows(value, prevValue))
       ELSE \E updatedValue \in {Spread(value, [updatedAt |-> now])} :
            \E prevLookupKeys \in {lookupKeys(prevValue, {})} :
            \E newLookupKeys \in {lookupKeys(updatedValue, {})} :
            \E toRemove \in {lookupsToRemove(prevLookupKeys, newLookupKeys)} :
            \E toAdd \in {lookupsToAdd(prevLookupKeys, newLookupKeys)} :
               /\ calls' = [calls EXCEPT
                     ![c].pc = IF toRemove # << >> THEN "remove" ELSE "write",
                     ![c].value = prevValue,
                     ![c].at = now,
                     ![c].toAdd = toAdd,
                     ![c].pending =
                         IF toRemove # << >>
                         THEN Range(Requests("zrem", toRemove))
                         ELSE Range(updateRequests(value, toAdd, {}))]
               /\ UNCHANGED last
    /\ UNCHANGED <<docs, zsets, ttl, now, nextUuid, nops, hist, scanVars, queryObject>>

\* One request of update reaches the backend.  The last one of the first
\* Promise.all sends the second; the last one of the second returns.
updateRequest(c, req) ==
    /\ calls[c].pc \in {"remove", "write"}
    /\ req \in calls[c].pending
    /\ \E value \in {calls[c].arg} :
       \E updatedValue \in {Spread(value, [updatedAt |-> calls[c].at])} :
          /\ docs' = IF req[1] = "json.set"
                     THEN JsonSet(docs, req[2], updatedValue) ELSE docs
          /\ zsets' = IF req[1] = "zrem" THEN ZRem(zsets, req[2], req[3])
                      ELSE IF req[1] = "zadd"
                      THEN ZAdd(zsets, req[2], updateScore(updatedValue), req[3])
                      ELSE zsets
          /\ IF calls[c].pending # {req}
             THEN /\ calls' = [calls EXCEPT ![c].pending = @ \ {req}]
                  /\ UNCHANGED last
             ELSE IF calls[c].pc = "remove"
             THEN /\ calls' = [calls EXCEPT
                        ![c].pc = "write",
                        ![c].pending =
                            Range(updateRequests(value, calls[c].toAdd, {}))]
                  /\ UNCHANGED last
             ELSE Returned(c, updatedValue, "")
    /\ UNCHANGED <<ttl, now, nextUuid, nops, hist, scanVars, queryObject>>

\* delete(id, options): the id is tested, then get(id, {deleted: true}) is
\* sent.
deleteStart(id, options) ==
    /\ calls["delete"].pc = "idle"
    /\ nops' = nops + 1
    /\ hist' = hist \cup Overlap("delete")
    /\ IF ~TruthyS(id)
       THEN /\ calls' = [calls EXCEPT !["delete"].pc = "done",
                                      !["delete"].arg = [id |-> id],
                                      !["delete"].opts = options,
                                      !["delete"].err = "null id"]
            /\ UNCHANGED last
       ELSE /\ calls' = [calls EXCEPT !["delete"].pc = "get",
                                      !["delete"].arg = [id |-> id],
                                      !["delete"].opts = options]
            /\ UNCHANGED last
    /\ UNCHANGED <<docs, zsets, ttl, now, nextUuid, scanVars, queryObject>>

\* The backend answers the read; delete sends its Promise.all.
deleteGet ==
    /\ calls["delete"].pc = "get"
    /\ \E id \in {calls["delete"].arg.id} :
       \E options \in {calls["delete"].opts} :
       \E value \in {get(id, {"deleted"})} :
       \E lks \in {IF value = NoRec THEN << >> ELSE lookupKeys(value, options)} :
          calls' = [calls EXCEPT
              !["delete"].pc = "write",
              !["delete"].value = value,
              !["delete"].at = now,
              !["delete"].pending = Range(deleteRequests(id, lks, options))]
    /\ UNCHANGED <<docs, zsets, ttl, now, nextUuid, nops, last, hist, scanVars, queryObject>>

\* One request of delete reaches the backend; the last one returns, and
\* throws when the backend refused one of them.
deleteRequest(req) ==
    /\ calls["delete"].pc = "write"
    /\ req \in calls["delete"].pending
    /\ \E id \in {calls["delete"].arg.id} :
       \E value \in {calls["delete"].value} :
       \E deletedAt \in {calls["delete"].at} :
       \E refused \in {req \in NoSuchDocument(docs, id, calls["delete"].opts)} :
       \E err \in {IF refused THEN "backend" ELSE calls["delete"].err} :
          /\ docs' = IF req[1] = "json.del" THEN JsonDel(docs, req[2])
                     ELSE IF req[1] = "json.set.deletedAt"
                     THEN JsonSetPath(docs, req[2], "deletedAt", deletedAt)
                     ELSE docs
          /\ zsets' = IF req[1] = "zrem" THEN ZRem(zsets, req[2], req[3]) ELSE zsets
          /\ ttl' = {k \in ttl : k \in DOMAIN docs'}
          /\ hist' = hist \cup (IF refused THEN {"backendError"} ELSE {})
          /\ IF calls["delete"].pending # {req}
             THEN /\ calls' = [calls EXCEPT !["delete"].pending = @ \ {req},
                                            !["delete"].err = err]
                  /\ UNCHANGED last
             ELSE Returned("delete",
                           IF value = NoRec \/ err # "" THEN NoRec
                           ELSE Spread(value, [deletedAt |-> deletedAt]),
                           err)
    /\ UNCHANGED <<now, nextUuid, nops, scanVars, queryObject>>

UpdateStart == \E value \in RaceUpdates : updateStart("update", value)

UpdateGet == updateGet("update")

UpdateRequest == \E req \in calls["update"].pending : updateRequest("update", req)

DeleteStart == \E c \in RaceDeletes : deleteStart(c[1], c[2])

DeleteGet == deleteGet

DeleteRequest == \E req \in calls["delete"].pending : deleteRequest(req)

\* One live record, as create() left it, and no call in flight.
InitRace ==
    /\ docs = StoredAll(<<RaceRecord>>).d
    /\ zsets = StoredAll(<<RaceRecord>>).z
    /\ ttl = {}
    /\ now = 1
    /\ nextUuid = 1
    /\ nops = 0
    /\ last = [op |-> "init", arg |-> NoRec, opts |-> {}, ret |-> NoRec,
               err |-> "", at |-> 1, cmds |-> {}, io |-> << >>,
               rejected |-> {}]
    /\ hist = {}
    /\ slots = << >>
    /\ sc = NoScan
    /\ calls = NoCalls
    /\ queryObject = NoRec

NextRace ==
    \/ UpdateStart \/ UpdateGet \/ UpdateRequest
    \/ DeleteStart \/ DeleteGet \/ DeleteRequest
    \/ Tick

SpecRace == InitRace /\ [][NextRace]_vars

(***************************************************************************)
(* Two updates of the one live record, made by two callers, each of which  *)
(* may move the record to a category of its own.                           *)
(***************************************************************************)
OtherCategories == {"c1", "c3"}

OtherUpdates ==
    {MkRec(RaceId, RaceRecord.createdAt, AbsentN, "u1", k) : k \in OtherCategories}

OtherStart == \E value \in OtherUpdates : updateStart("other", value)

OtherGet == updateGet("other")

OtherRequest == \E req \in calls["other"].pending : updateRequest("other", req)

NextUpdates ==
    \/ UpdateStart \/ UpdateGet \/ UpdateRequest
    \/ OtherStart \/ OtherGet \/ OtherRequest
    \/ Tick

SpecUpdates == InitRace /\ [][NextUpdates]_vars

(***************************************************************************)
(* C1: after any sequence of completed create, update and delete calls,    *)
(* under any options and with no backend write failing, the primary set    *)
(* holds exactly the ids of the documents that exist and carry no          *)
(* deletedAt.                                                              *)
(***************************************************************************)
C1_PrimaryIndexAnyOptions ==
    NoFailedWrite => ZMembers(zsets, <<setKey>>) = LiveIds

\* C1 as amended: the same, for calls made without noIndex and without
\* expire, whose records carry no deletedAt of the caller's.
C1_PrimaryIndex ==
    (NoFailedWrite /\ hist \cap {"noIndex", "expire", "deletedAtArg"} = {})
        => ZMembers(zsets, <<setKey>>) = LiveIds

C1_Witness ==
    /\ NoFailedWrite /\ hist \cap {"noIndex", "expire", "deletedAtArg"} = {}
    /\ last.op = "delete" /\ last.ret # NoRec /\ "hardDelete" \notin last.opts
    /\ exists(last.arg.id) /\ last.arg.id \notin LiveIds
    /\ LiveIds # {}

(***************************************************************************)
(* C2: after any sequence of completed calls with no backend write         *)
(* failing, every live record is, for every lookup name, a member of the   *)
(* lookup set of its current field value and of no other set of that name, *)
(* also when create is called again with an id that exists.                *)
(***************************************************************************)
C2_LookupIndex ==
    (NoFailedWrite /\ hist \cap {"noLookup", "expire"} = {}) =>
        \A k \in DOMAIN docs : Live(docs, k) =>
            \A i \in 1..Len(lookups) :
                LET mine == <<setKey, lookups[i][1], Field(docs[k], lookups[i][2])>>
                IN  /\ k[2] \in ZMembers(zsets, mine)
                    /\ \A other \in LookupSetKeys(lookups[i][1]) \ {mine} :
                           k[2] \notin ZMembers(zsets, other)

\* C2 holds of the runs in which no create names an id that has a document.
C2_LookupIndexFreshIds ==
    "recreate" \notin hist => C2_LookupIndex

(***************************************************************************)
(* C3: after delete(id) without hardDelete on an existing record, get(id)  *)
(* finds nothing, get(id, {deleted: true}) returns the record with         *)
(* deletedAt set and its other fields as they were, exists(id) is true,    *)
(* and the id is in neither the primary set nor a lookup set.              *)
(***************************************************************************)
InNoLookupSet(id) ==
    \A k \in DOMAIN zsets : Len(k) = 3 => id \notin ZMembers(zsets, k)

SoftDeleted ==
    /\ last.op = "delete" /\ last.err = "" /\ last.opts = {}
    /\ last.ret # NoRec
    /\ NoFailedWrite /\ hist \cap {"noLookup", "expire"} = {}

C3_SoftDeleteHides ==
    SoftDeleted =>
        /\ get(last.arg.id, {}) = NoRec
        /\ get(last.arg.id, {"deleted"}) = last.ret
        /\ TruthyN(Field(last.ret, "deletedAt"))
        /\ exists(last.arg.id)
        /\ last.arg.id \notin ZMembers(zsets, <<setKey>>)
        /\ InNoLookupSet(last.arg.id)

\* C3 holds of the runs in which no create names an id that has a document.
C3_SoftDeleteHidesFreshIds ==
    "recreate" \notin hist => C3_SoftDeleteHides

(***************************************************************************)
(* C4: after delete(id, {hardDelete: true}) on a record that is live or    *)
(* soft-deleted, get(id, {deleted: true}) finds nothing, exists(id) is     *)
(* false, and the id is a member of no primary or lookup set.              *)
(***************************************************************************)
HardDeleted ==
    /\ last.op = "delete" /\ last.err = "" /\ last.opts = {"hardDelete"}
    /\ last.ret # NoRec
    /\ NoFailedWrite /\ hist \cap {"noLookup", "expire"} = {}

C4_HardDeleteErases ==
    HardDeleted =>
        /\ get(last.arg.id, {"deleted"}) = NoRec
        /\ ~exists(last.arg.id)
        /\ last.arg.id \notin ZMembers(zsets, <<setKey>>)
        /\ InNoLookupSet(last.arg.id)

\* C4 holds of the runs in which no create names an id that has a document.
C4_HardDeleteErasesFreshIds ==
    "recreate" \notin hist => C4_HardDeleteErases

(***************************************************************************)
(* C5: for every partial record v, after r = create(v), get(r.id) returns  *)
(* a record equal to r, which carries every field of v, an id, and, when   *)
(* v gave no createdAt, a createdAt not earlier than the time of the call. *)
(***************************************************************************)
RoundTrip ==
    LET r == last.ret
        v == last.arg
    IN  /\ "id" \in DOMAIN r /\ TruthyS(r.id)
        /\ get(r.id, {}) = r
        /\ \A f \in DOMAIN v : r[f] = v[f]
        /\ "createdAt" \notin DOMAIN v => r.createdAt >= last.at

C5_RoundTripAnyRecord ==
    last.op = "create" => RoundTrip

\* C5 of the records that carry no deletedAt, which get() would hide: it
\* holds of a record whose id is absent or truthy, and is refuted by one
\* whose id is undefined or empty, which create() stores as it is (C16).
C5_RoundTrip ==
    (/\ last.op = "create" /\ last.err = ""
     /\ ~TruthyN(Field(last.arg, "deletedAt"))) => RoundTrip

C5_Witness ==
    /\ last.op = "create" /\ DOMAIN last.arg = {"createdBy", "category"}
    /\ last.at = 2 /\ last.ret.createdAt = 2
    /\ get(last.ret.id, {}) = last.ret

(***************************************************************************)
(* C6: with lookup name L mapped to field F, after create of a record      *)
(* whose F is x, find({L: x}) contains the record and find({L: y}) does    *)
(* not, for every y other than x.                                          *)
(***************************************************************************)
FindBy(entries) == find(Query(UndefN, UndefN, entries))

LookupValues(name) == {k[3] : k \in LookupSetKeys(name)}

C6_CreateIndexes ==
    (/\ last.op = "create" /\ last.opts = {}
     /\ ~TruthyN(Field(last.arg, "deletedAt"))
     /\ NoFailedWrite /\ hist \cap {"noLookup", "expire"} = {}) =>
        \A i \in 1..Len(lookups) :
            LET L == lookups[i][1]
                x == Field(last.ret, lookups[i][2])
            IN  /\ last.ret \in Range(FindBy(<< <<L, x>> >>))
                /\ \A y \in LookupValues(L) \ {x} :
                       \A rec \in Range(FindBy(<< <<L, y>> >>)) : rec.id # last.ret.id

\* C6 holds of the runs in which no create names an id that has a document.
C6_CreateIndexesFreshIds ==
    "recreate" \notin hist => C6_CreateIndexes

(***************************************************************************)
(* C7: after update changes a live record's indexed field from c1 to c2,   *)
(* the record is absent from find({L: c1}) and present in find({L: c2});   *)
(* the update issues no add or remove against a lookup set whose key is    *)
(* the same before and after, and the membership of every other record in  *)
(* every lookup set is unchanged.                                          *)
(***************************************************************************)
UpdateDone ==
    /\ nops' = nops + 1
    /\ last'.op = "update" /\ last'.err = ""

Migrated(id, prev, new) ==
    \A i \in 1..Len(lookups) :
        LET L == lookups[i][1]
            c1 == Field(prev, lookups[i][2])
            c2 == Field(new, lookups[i][2])
            at1 == findIn(docs', zsets', Query(UndefN, UndefN, << <<L, c1>> >>))
            at2 == findIn(docs', zsets', Query(UndefN, UndefN, << <<L, c2>> >>))
        IN  IF c1 # c2
            THEN /\ \A rec \in Range(at1) : rec.id # id
                 /\ new \in Range(at2)
            ELSE \A cmd \in last'.cmds : cmd[2] # <<setKey, L, c1>>

OthersUntouched(id) ==
    \A k \in DOMAIN zsets \cup DOMAIN zsets' : Len(k) = 3 =>
        \A m \in (ZMembers(zsets, k) \cup ZMembers(zsets', k)) \ {id} :
            /\ m \in ZMembers(zsets, k) /\ m \in ZMembers(zsets', k)
            /\ zsets[k][m] = zsets'[k][m]

C7_UpdateMigratesAnyUpdate ==
    [][UpdateDone =>
          /\ Migrated(last'.arg.id, docs[valueKey(last'.arg.id)], last'.ret)
          /\ OthersUntouched(last'.arg.id)]_vars

\* C7 as amended: the same, of an update made without noLookup whose record
\* carries no deletedAt.
C7_UpdateMigrates ==
    [][(/\ UpdateDone
        /\ "noLookup" \notin last'.opts
        /\ ~TruthyN(Field(last'.arg, "deletedAt"))) =>
          /\ Migrated(last'.arg.id, docs[valueKey(last'.arg.id)], last'.ret)
          /\ OthersUntouched(last'.arg.id)]_vars

C7_Witness ==
    /\ last.op = "update" /\ last.err = "" /\ last.opts = {}
    /\ \E c1, c2 \in Categories :
          /\ c1 # c2
          /\ <<"zrem", <<setKey, "category", c1>>, last.arg.id>> \in last.cmds
          /\ <<"zadd", <<setKey, "category", c2>>, last.arg.id>> \in last.cmds
          /\ last.ret \in Range(FindBy(<< <<"category", c2>> >>))
    /\ \A cmd \in last.cmds : cmd[2][2] # "user"
    /\ \E k \in DOMAIN zsets : Len(k) = 3 /\ ZMembers(zsets, k) \ {last.arg.id} # {}

(***************************************************************************)
(* C8: with no offset or count, find({L1: x, L2: y}) returns exactly the   *)
(* live records whose L1 field is x and whose L2 field is y, for any       *)
(* number of criteria.                                                     *)
(***************************************************************************)
LiveWith(entries) ==
    {docs[k] : k \in {x \in DOMAIN docs :
        /\ Live(docs, x)
        /\ \A i \in 1..Len(entries) :
              \E j \in 1..Len(lookups) :
                 /\ lookups[j][1] = entries[i][1]
                 /\ Field(docs[x], lookups[j][2]) = entries[i][2]}}

Criteria ==
    {<< <<"user", x>> >> : x \in Users}
    \cup {<< <<"category", y>> >> : y \in Categories}
    \cup {<< <<"user", x>>, <<"category", y>> >> : x \in Users, y \in Categories}
    \cup {<< <<"category", y>>, <<"user", x>> >> : x \in Users, y \in Categories}

C8_Intersection ==
    (NoFailedWrite /\ hist \cap {"noLookup", "expire"} = {}) =>
        \A entries \in Criteria : Range(FindBy(entries)) = LiveWith(entries)

\* C8 holds of the runs in which no create names an id that has a document.
C8_IntersectionFreshIds ==
    "recreate" \notin hist => C8_Intersection

(***************************************************************************)
(* C9: after any sequence of create, update and delete calls, find() with  *)
(* no criteria returns records in strictly descending order of their       *)
(* createdAt.                                                              *)
(***************************************************************************)
FindAll == FindBy(<< >>)

C9_StrictlyDescendingCreatedAt ==
    \A i, j \in 1..Len(FindAll) : i < j =>
        /\ "createdAt" \in DOMAIN FindAll[i]
        /\ "createdAt" \in DOMAIN FindAll[j]
        /\ FindAll[i].createdAt > FindAll[j].createdAt

Score(id) == zsets[<<setKey>>][id]

\* C9 as amended: find() returns the live records of the primary set in
\* descending order of their score there, records of equal score in
\* descending order of their ids; the score is the createdAt the record was
\* created with.

C9_DescendingScore ==
    /\ \A i, j \in 1..Len(FindAll) : i < j =>
          /\ FindAll[i].id \in ZMembers(zsets, <<setKey>>)
          /\ FindAll[j].id \in ZMembers(zsets, <<setKey>>)
          /\ \/ Score(FindAll[i].id) > Score(FindAll[j].id)
             \/ /\ Score(FindAll[i].id) = Score(FindAll[j].id)
                /\ Rank(FindAll[i].id) > Rank(FindAll[j].id)
    /\ Range(FindAll) = {docs[valueKey(m)] : m \in ZMembers(zsets, <<setKey>>) \cap LiveIds}
    /\ (last.op = "create" /\ "noIndex" \notin last.opts) =>
          Score(last.ret.id) = last.ret.createdAt

C9_Witness ==
    /\ Len(FindAll) = 2
    /\ Score(FindAll[1].id) = Score(FindAll[2].id)
    /\ last.op = "update" /\ last.err = ""
    /\ Field(last.ret, "createdAt") # Score(last.ret.id)

(***************************************************************************)
(* C10: with M documents stored under the store's key and a backend scan   *)
(* whose cursor returns to "0" (pages may be empty or repeat keys),        *)
(* ids({scan: "*", count: N}) terminates and returns exactly min(N, M)     *)
(* distinct ids; the loop stops as soon as the cap is reached, the cursor  *)
(* is "0", or the cursor is falsy.                                         *)
(***************************************************************************)
StoredIds == {k[2] : k \in {x \in DOMAIN docs : x[1] = key}}

ScanReturns(n) ==
    /\ Len(sc.keys) = (IF n < Cardinality(StoredIds) THEN n ELSE Cardinality(StoredIds))
    /\ Cardinality(Range(sc.keys)) = Len(sc.keys)
    /\ Range(sc.keys) \subseteq StoredIds

\* As stated, for every count N the caller passes: refuted by N = 0.
C10_ScanAnyCount ==
    (sc.pc = "done" /\ sc.query.count # UndefN) => ScanReturns(sc.query.count)

ScanStops ==
    LET stop == \/ Len(sc.keys) >= sc.count
                \/ sc.nextCursor = "0"
                \/ sc.nextCursor = ""
    IN  /\ (sc.pc = "call" /\ sc.calls > 0) => ~stop
        /\ sc.pc = "done" => stop

\* C10 for a count N >= 1: every scan that starts returns; what it returns
\* is min(N, M) distinct ids of stored documents; and the loop makes no
\* further pass once the cap is reached or the cursor is "0" or falsy.
C10_Scan ==
    /\ [](sc.pc = "done" /\ sc.query.count >= 1 => ScanReturns(sc.query.count))
    /\ []ScanStops
    /\ (sc.pc = "call" ~> sc.pc = "done")

\* A scan capped below the number of documents has returned after more
\* than one pass.
C10_Witness ==
    /\ sc.pc = "done"
    /\ sc.query.count >= 1
    /\ sc.query.count < Cardinality(StoredIds)
    /\ sc.calls >= 2
    /\ Len(sc.keys) = sc.query.count

(***************************************************************************)
(* C11: update fails, with the error of a record it cannot find, when      *)
(* record.id is falsy or when no document exists for that id, and then the *)
(* documents, the primary index and every lookup index are unchanged.      *)
(***************************************************************************)
UpdateOfNothing ==
    /\ nops' = nops + 1
    /\ last'.op = "update"
    /\ ~TruthyS(Field(last'.arg, "id")) \/ ~exists(last'.arg.id)

C11_UpdateNotFound ==
    [][UpdateOfNothing =>
          /\ last'.err \in {"null id", "does not exist"}
          /\ last'.ret = NoRec
          /\ docs' = docs
          /\ zsets' = zsets]_vars

\* An update of an id that has no document was refused while the store
\* held live records.
C11_Witness ==
    /\ last.op = "update"
    /\ last.err = "does not exist"
    /\ ~exists(last.arg.id)
    /\ LiveIds # {}
    /\ zsets # << >>

(***************************************************************************)
(* C12: a call that fails validation - update with a falsy id, delete with *)
(* a falsy id, find or ids with a lookup criterion whose value is falsy,   *)
(* in any position among several criteria - fails before any backend       *)
(* request of that call has been issued.                                   *)
(***************************************************************************)
FailedValidation ==
    last.err \in {"null id", "query must have key and value"}

C12_ValidationBeforeIO == FailedValidation => last.io = << >>

\* C12 holds of update and of delete, which test the id first.
C12_NullIdBeforeIO == last.err = "null id" => last.io = << >>

\* C12 holds of ids and find when the first criterion is the falsy one.
C12_FirstCriterionBeforeIO ==
    (/\ last.op \in {"ids", "find"}
     /\ Len(last.arg.entries) > 0
     /\ ~TruthyS(last.arg.entries[1][2])) => (last.err # "" /\ last.io = << >>)

(***************************************************************************)
(* C13: when the backend rejects one of the writes a create, update or     *)
(* delete issued together, the call rejects, every other write it issued   *)
(* with it is in effect, and the rejected write is not: nothing is rolled  *)
(* back.                                                                   *)
(***************************************************************************)
WrittenValue ==
    IF last'.op = "create" THEN ToJSON(createdValueOf(last'.arg))
    ELSE ToJSON(Spread(last'.arg, [updatedAt |-> now]))

Member(z, k, m) == IF m \in ZMembers(z, k) THEN <<z[k][m]>> ELSE << >>

InEffect(w) ==
    CASE w[1] = "json.set" -> w[2] \in DOMAIN docs' /\ docs'[w[2]] = WrittenValue
      [] w[1] = "json.set.deletedAt" ->
            w[2] \in DOMAIN docs' /\ Field(docs'[w[2]], "deletedAt") = now
      [] w[1] = "json.del" -> w[2] \notin DOMAIN docs'
      [] w[1] = "zadd" -> w[3] \in ZMembers(zsets', w[2])
      [] w[1] = "zrem" -> w[3] \notin ZMembers(zsets', w[2])
      [] OTHER -> TRUE

NotInEffect(w) ==
    CASE w[1] \in {"json.set", "json.set.deletedAt", "json.del"} ->
            JsonGet(docs', w[2]) = JsonGet(docs, w[2])
      [] w[1] \in {"zadd", "zrem"} -> Member(zsets', w[2], w[3]) = Member(zsets, w[2], w[3])
      [] OTHER -> TRUE

C13_NoRollback ==
    [][(nops' = nops + 1 /\ last'.rejected # {}) =>
          /\ last'.err = "backend"
          /\ last'.ret = NoRec
          /\ \A i \in 1..Len(last'.io) :
                IF last'.io[i] \in last'.rejected
                THEN NotInEffect(last'.io[i])
                ELSE InEffect(last'.io[i])]_vars

\* An update whose document write was rejected has moved the record from
\* one lookup set to another: the document and its indexes disagree.
C13_Witness ==
    /\ last.op = "update"
    /\ last.rejected = {<<"json.set", valueKey("a")>>}
    /\ \E c1, c2 \in Categories :
          /\ c1 # c2
          /\ docs[valueKey("a")].category = c1
          /\ "a" \in ZMembers(zsets, <<setKey, "category", c2>>)
          /\ "a" \notin ZMembers(zsets, <<setKey, "category", c1>>)

(***************************************************************************)
(* C14: for a query with two or more lookup criteria and numeric offset o  *)
(* and count c, ids(query) is the intersection of the per-criterion        *)
(* windows, each window being ranks o..o+c-1 of that criterion's lookup    *)
(* set in descending score order: pagination comes before intersection.    *)
(***************************************************************************)
\* The number of members of set k that come before m in descending order.
RankOf(k, m) ==
    Cardinality({x \in ZMembers(zsets, k) :
                    \/ zsets[k][x] > zsets[k][m]
                    \/ zsets[k][x] = zsets[k][m] /\ Rank(x) > Rank(m)})

Window(k, o, c) ==
    {m \in ZMembers(zsets, k) : o <= RankOf(k, m) /\ RankOf(k, m) <= o + c - 1}

CriterionKey(e) == <<setKey, e[1], e[2]>>

IdsByCriteria ==
    /\ last.op = "ids"
    /\ last.err = ""
    /\ Len(last.arg.entries) >= 2
    /\ last.arg.offset # UndefN
    /\ last.arg.count # UndefN

WindowsIntersected ==
    Range(last.ret) =
        {m \in Window(CriterionKey(last.arg.entries[1]), last.arg.offset, last.arg.count) :
            \A i \in 2..Len(last.arg.entries) :
                m \in Window(CriterionKey(last.arg.entries[i]),
                             last.arg.offset, last.arg.count)}

C14_PaginateThenIntersectAnyCount == IdsByCriteria => WindowsIntersected

\* C14 as amended: the same, for a count c >= 1 (a count of 0 with offset 0
\* reads each lookup set whole).
C14_PaginateThenIntersect ==
    (IdsByCriteria /\ last.arg.count >= 1) => WindowsIntersected

\* The windows of two criteria share no id although the two sets share
\* more ids than the offset: intersecting first would have returned one.
C14_Witness ==
    /\ IdsByCriteria
    /\ last.arg.count >= 1
    /\ last.ret = << >>
    /\ Cardinality(ZMembers(zsets, CriterionKey(last.arg.entries[1]))
                   \cap ZMembers(zsets, CriterionKey(last.arg.entries[2])))
          > last.arg.offset

(***************************************************************************)
(* C19: for numeric offset o >= 0 and count c >= 1, ids({offset: o,        *)
(* count: c}) returns exactly the members at ranks o..o+c-1 of the primary *)
(* index in descending score order, most recent first: at most c ids.      *)
(***************************************************************************)
C19_Pagination ==
    (/\ last.op = "ids"
     /\ last.arg.entries = << >>
     /\ last.arg.offset >= 0
     /\ last.arg.count >= 1) =>
        /\ Len(last.ret) = Cardinality(Window(<<setKey>>, last.arg.offset, last.arg.count))
        /\ Len(last.ret) <= last.arg.count
        /\ \A i \in 1..Len(last.ret) :
              /\ last.ret[i] \in ZMembers(zsets, <<setKey>>)
              /\ RankOf(<<setKey>>, last.ret[i]) = last.arg.offset + i - 1

\* A page that starts after the most recent id and ends before the oldest.
C19_Witness ==
    /\ last.op = "ids"
    /\ last.arg.entries = << >>
    /\ last.arg.offset = 1
    /\ last.arg.count = 1
    /\ Len(last.ret) = 1
    /\ Cardinality(ZMembers(zsets, <<setKey>>)) >= 3

(***************************************************************************)
(* C15: for a resolved id set of any size, below, at or above the chunk    *)
(* size, find returns exactly the documents of those ids that exist and    *)
(* have no deletedAt: each requested live record is there whichever chunk  *)
(* it falls in, and no soft-deleted or absent record is returned.          *)
(***************************************************************************)
Requested == SelectSeq(last.arg.id, TruthyS)

C15_BatchHydration ==
    (last.op = "find" /\ "id" \in DOMAIN last.arg) =>
        /\ Range(last.ret) =
              {docs[valueKey(id)] : id \in {x \in Range(Requested) : Live(docs, valueKey(x))}}
        /\ Len(last.ret) =
              Cardinality({i \in 1..Len(Requested) : Live(docs, valueKey(Requested[i]))})
        /\ \A i \in 1..Len(last.ret) : "deletedAt" \notin DOMAIN last.ret[i]

\* Three chunks were read: the last record of the first chunk is
\* soft-deleted, the first of the second is live and was returned, and the
\* record of the third is absent.
C15_Witness ==
    /\ last.op = "find" /\ "id" \in DOMAIN last.arg
    /\ Len(last.io) = 3
    /\ Len(Requested) = 2 * blockSize + 1
    /\ Requested[1] = HydrateId(1)
    /\ valueKey(Requested[blockSize]) \in DOMAIN docs
    /\ ~Live(docs, valueKey(Requested[blockSize]))
    /\ Live(docs, valueKey(Requested[blockSize + 1]))
    /\ docs[valueKey(Requested[blockSize + 1])] \in Range(last.ret)
    /\ valueKey(Requested[2 * blockSize + 1]) \notin DOMAIN docs
    /\ Len(last.ret) = 2 * blockSize - 1

(***************************************************************************)
(* C16: for every partial record passed to create, one that carries an id  *)
(* or createdAt whose value is undefined, empty or 0 included, the stored  *)
(* and returned record has the caller's id when one was supplied and a     *)
(* generated non-empty id otherwise, and the caller's createdAt when       *)
(* supplied and the current time otherwise.                                *)
(***************************************************************************)
CreateAssigns ==
    LET v == last.arg
        r == last.ret
        stored == JsonGet(docs, valueKey(Field(r, "id")))
    IN  /\ stored # << >>
        /\ stored[1] = ToJSON(r)
        /\ IF TruthyS(Field(v, "id"))
           THEN Field(stored[1], "id") = v.id
           ELSE TruthyS(Field(stored[1], "id"))
        /\ IF TruthyN(Field(v, "createdAt"))
           THEN Field(stored[1], "createdAt") = v.createdAt
           ELSE Field(stored[1], "createdAt") = last.at

C16_CreateDefaults ==
    (last.op = "create" /\ last.err = "") => CreateAssigns

\* C16 holds of the records that carry no id or a truthy one, and no
\* createdAt or a truthy one.
C16_CreateDefaultsNoFalsyField ==
    (/\ last.op = "create" /\ last.err = ""
     /\ "id" \in DOMAIN last.arg => TruthyS(last.arg.id)
     /\ "createdAt" \in DOMAIN last.arg => TruthyN(last.arg.createdAt)) => CreateAssigns


(***************************************************************************)
(* C17: delete of an id that has no document, soft or hard, does not fail: *)
(* it returns no record, creates no document for that id, and leaves every *)
(* lookup index unchanged.                                                 *)
(***************************************************************************)
DeleteOfNothing ==
    /\ nops' = nops + 1
    /\ last'.op = "delete"
    /\ TruthyS(last'.arg.id)
    /\ ~exists(last'.arg.id)

LookupIndexes(z) == [k \in {x \in DOMAIN z : Len(x) = 3} |-> z[k]]

C17_DeleteOfNothing ==
    [][DeleteOfNothing =>
          /\ last'.err = ""
          /\ last'.ret = NoRec
          /\ docs' = docs
          /\ LookupIndexes(zsets') = LookupIndexes(zsets)]_vars

\* C17 holds of the hard delete, whose JSON.DEL of a missing key is no error.
C17_HardDeleteOfNothing ==
    [][(DeleteOfNothing /\ "hardDelete" \in last'.opts) =>
          /\ last'.err = ""
          /\ last'.ret = NoRec
          /\ docs' = docs
          /\ LookupIndexes(zsets') = LookupIndexes(zsets)]_vars

\* What C17 says apart from "does not fail" holds of the soft delete too.
C17_DeleteOfNothingWritesNothing ==
    [][DeleteOfNothing =>
          /\ last'.ret = NoRec
          /\ docs' = docs
          /\ LookupIndexes(zsets') = LookupIndexes(zsets)]_vars


(***************************************************************************)
(* C18: after any sequence of completed create and update calls, every     *)
(* member of the primary index and of every lookup index has a score equal *)
(* to the createdAt field of that member's current document.               *)
(***************************************************************************)
ScoresAreCreatedAt(d, z) ==
    \A k \in DOMAIN z : \A m \in DOMAIN z[k] :
        /\ valueKey(m) \in DOMAIN d
        /\ "createdAt" \in DOMAIN d[valueKey(m)]
        /\ z[k][m] = d[valueKey(m)].createdAt

C18_IndexScores == ScoresAreCreatedAt(docs, zsets)

\* C18 is kept by every create of a new id without the noLookup or noIndex
\* option...
C18_CreateKeepsScores ==
    [][(/\ ScoresAreCreatedAt(docs, zsets)
        /\ last'.op = "create" /\ nops' = nops + 1
        /\ ~exists(last'.ret.id)) => ScoresAreCreatedAt(docs', zsets')]_vars

\* ... and by every update that passes the stored, truthy createdAt on.
C18_UpdateKeepsScores ==
    [][(/\ ScoresAreCreatedAt(docs, zsets)
        /\ last'.op = "update" /\ nops' = nops + 1
        /\ last'.err = ""
        /\ TruthyN(Field(last'.arg, "createdAt"))
        /\ last'.arg.createdAt = StoredCreatedAt(last'.arg.id))
       => ScoresAreCreatedAt(docs', zsets')]_vars


(***************************************************************************)
(* C20: a delete is not undone by a concurrent update.  When update(r) and *)
(* delete(r.id) on the same live record interleave in any order of their   *)
(* backend calls and both complete without a failure, the record is        *)
(* afterwards soft-deleted or absent and its id is in no primary or lookup *)
(* index.                                                                  *)
(***************************************************************************)
BothCompleted ==
    \A c \in {"update", "delete"} : calls[c].pc = "done" /\ calls[c].err = ""

DeletedAndUnindexed(id) ==
    /\ ~Live(docs, valueKey(id))
    /\ \A k \in DOMAIN zsets : id \notin ZMembers(zsets, k)

C20_DeleteNotUndone == BothCompleted => DeletedAndUnindexed(RaceId)

\* C20 holds of the two calls made one after the other.
C20_DeleteAfterUpdate ==
    (BothCompleted /\ "overlap" \notin hist) => DeletedAndUnindexed(RaceId)


(***************************************************************************)
(* C24: when count is absent, ids with numeric offset o returns every      *)
(* member of the queried index from rank o to the end, in descending score *)
(* order, for every o >= 0.                                                *)
(***************************************************************************)
IdsWithoutCount ==
    /\ last.op = "ids"
    /\ last.err = ""
    /\ Len(last.arg.entries) <= 1
    /\ last.arg.count = UndefN
    /\ last.arg.offset >= 0

QueriedIndex ==
    IF last.arg.entries = << >> THEN <<setKey>> ELSE CriterionKey(last.arg.entries[1])

FromRankToEnd ==
    /\ Range(last.ret) =
          {m \in ZMembers(zsets, QueriedIndex) : RankOf(QueriedIndex, m) >= last.arg.offset}
    /\ \A i \in 1..Len(last.ret) :
          /\ last.ret[i] \in ZMembers(zsets, QueriedIndex)
          /\ RankOf(QueriedIndex, last.ret[i]) = last.arg.offset + i - 1

C24_AbsentCount == IdsWithoutCount => FromRankToEnd

\* C24 holds of the offset 0, where the range is 0 .. -1.
C24_AbsentCountFromTheStart ==
    (IdsWithoutCount /\ last.arg.offset = 0) => FromRankToEnd

\* With an absent count and an offset o >= 1 the range is o .. o - 1, and
\* ids returns nothing.
C24_AbsentCountPastTheStart ==
    (IdsWithoutCount /\ last.arg.offset >= 1) => last.ret = << >>


(***************************************************************************)
(* C23: calling find (or ids) twice with the same query object, with no    *)
(* write in between, returns the same result both times for every query    *)
(* carrying offset and/or count: the first call leaves the caller's query  *)
(* object unchanged.                                                       *)
(***************************************************************************)
\* The step of the second call, after a first one that did not throw.
Repeated ==
    /\ nops = 1 /\ nops' = 2
    /\ last.err = ""
    /\ last'.op = last.op

Paged(query) == query.count # UndefN \/ query.offset # UndefN

C23_RepeatStable ==
    [][(Repeated /\ Paged(last.arg)) => last'.ret = last.ret]_vars

\* The second half of C23: the second call is given the query the first
\* one was given.
C23_QueryObjectKept ==
    [][(Repeated /\ Paged(last.arg)) => last'.arg = last.arg]_vars

\* C23 holds of the queries that carry neither offset nor count, which
\* ids() has nothing to take from.
C23_RepeatStableUnpaged ==
    [][(Repeated /\ ~Paged(last.arg)) =>
          /\ last'.ret = last.ret
          /\ last'.arg = last.arg]_vars

\* The second call is the first one's query without its offset and count.
C23_RepeatUnpaged ==
    [][Repeated =>
          /\ last'.arg = Query(UndefN, UndefN, last.arg.entries)
          /\ last'.ret = (IF last.op = "ids" THEN ids(last'.arg) ELSE find(last'.arg))]_vars


(***************************************************************************)
(* C22: at every point during an update that moves a live record's indexed *)
(* field from c1 to c2, the record's id is a member of at least one of the *)
(* two lookup sets, the old one or the new one.                            *)
(***************************************************************************)
CategoryKey(r) == <<setKey, "category", r.category>>

\* The update is under way or done, it moves the record to another
\* category, and no other call has touched the record.
Migrating ==
    /\ calls["update"].pc # "idle"
    /\ calls["update"].err = ""
    /\ calls["update"].arg.category # RaceRecord.category
    /\ calls["delete"].pc = "idle"

InOldOrNew ==
    RaceId \in ZMembers(zsets, CategoryKey(RaceRecord))
               \cup ZMembers(zsets, CategoryKey(calls["update"].arg))

C22_NoLookupGap == Migrating => InOldOrNew

\* The gap of C22 lies between the two Promise.all of update: the removal
\* has been awaited and the addition has not reached the backend.
C22_GapBetweenAwaits ==
    (Migrating /\ ~InOldOrNew) =>
        /\ calls["update"].pc = "write"
        /\ <<"zadd", CategoryKey(calls["update"].arg), RaceId>> \in calls["update"].pending

\* Once the update has returned the id is in the new set and not in the old.
C22_MigratedWhenDone ==
    (Migrating /\ calls["update"].pc = "done") =>
        /\ RaceId \in ZMembers(zsets, CategoryKey(calls["update"].arg))
        /\ RaceId \notin ZMembers(zsets, CategoryKey(RaceRecord))


(***************************************************************************)
(* C21: when two update calls on the same live record, changing the same   *)
(* indexed field to two different values, interleave in any order of their *)
(* backend calls and both complete, the record's id ends in exactly one    *)
(* lookup set of that lookup name, the one matching the field value of the *)
(* finally stored document.                                                *)
(***************************************************************************)
BothUpdated ==
    /\ \A c \in {"update", "other"} :
          /\ calls[c].pc = "done" /\ calls[c].err = ""
          /\ calls[c].arg.category # RaceRecord.category
    /\ calls["update"].arg.category # calls["other"].arg.category

Buckets(name, id) ==
    {k \in DOMAIN zsets : Len(k) = 3 /\ k[2] = name /\ id \in ZMembers(zsets, k)}

OneBucket ==
    Buckets("category", RaceId) = {CategoryKey(docs[valueKey(RaceId)])}

C21_OneBucket == BothUpdated => OneBucket

\* C21 holds of the two updates made one after the other.
C21_OneBucketInTurn == (BothUpdated /\ "overlap" \notin hist) => OneBucket

\* What remains of C21 under any interleaving: the set matching the
\* finally stored document is among the sets that hold the id.
C21_LastBucketHeld ==
    BothUpdated => CategoryKey(docs[valueKey(RaceId)]) \in Buckets("category", RaceId)

====
